---- MODULE Spec2Model ----
(***************************************************************************)
(* ormic: a minimal ORM.  Model schemas (model.py), fields (field.py) and  *)
(* the Database handler with its per-model cache (database.py), as a state *)
(* machine.  The aiosqlite connection is the external collaborator: what   *)
(* it answers to a statement is a nondeterministic input of each action.   *)
(***************************************************************************)
EXTENDS Integers, Sequences, FiniteSets, TLC

VARIABLES
    declared,      \* model classes created so far, in creation order
    Model_fields,  \* the dict object bound to Model._fields (model.py:25)
    _database,     \* per declared class: the class attribute _database
    models,        \* Database.models
    connection,    \* Database.connection
    cache,         \* Database.cache: model class -> list of object references
    cache_config,  \* Database.cache_config
    heap,          \* the Model instances the caller holds, by reference
    calls,         \* the calls the last operation made on the connection
    last           \* the last operation: its name, what it raised, what it returned

vars == <<declared, Model_fields, _database, models, connection,
          cache, cache_config, heap, calls, last>>

----------------------------------------------------------------------------
(* Bounds of the model *)

MaxObjects == 2
MaxLimit == 2
MaxModels == 1
MaxInstances == 1

----------------------------------------------------------------------------
(* Python values *)

None == [type |-> "NoneType"]
PyInt(n) == [type |-> "int", int |-> n]
PyStr(s) == [type |-> "str", str |-> s]

Digits == <<"0", "1", "2", "3", "4", "5", "6", "7", "8", "9">>

RECURSIVE NatStr(_)
NatStr(n) == IF n < 10 THEN Digits[n + 1] ELSE NatStr(n \div 10) \o Digits[(n % 10) + 1]

\* str(value)
str(value) ==
    CASE value.type = "int" -> IF value.int < 0 THEN "-" \o NatStr(0 - value.int)
                               ELSE NatStr(value.int)
      [] value.type = "str" -> value.str
      [] OTHER -> "None"

isinstance(value, type) == value.type = type

RECURSIVE join(_, _)
join(sep, strs) ==
    IF strs = <<>> THEN ""
    ELSE IF Len(strs) = 1 THEN strs[1]
    ELSE strs[1] \o sep \o join(sep, Tail(strs))

----------------------------------------------------------------------------
(* field.py *)

DATATYPES ==
    << [python |-> "str", sql |-> <<"TEXT", "CHAR">>],
       [python |-> "int", sql |-> <<"INTEGER", "BIGINT">>],
       [python |-> "float", sql |-> <<"FLOAT">>],
       [python |-> "datetime", sql |-> <<"DATETIME">>] >>

sql_type(python_type) ==
    LET hits == {i \in 1..Len(DATATYPES) : DATATYPES[i].python = python_type}
        first == CHOOSE i \in hits : \A j \in hits : i <= j
    IN  DATATYPES[first].sql[1]

Field(name, field_type, default) ==
    [name |-> name, type |-> field_type, sql_type |-> sql_type(field_type),
     default |-> default]

Field_to_sql(field) == field.name \o " " \o field.sql_type

----------------------------------------------------------------------------
(* The program's class statements: each model class and its annotations,   *)
(* in the order they are written.  No attribute has a class-level default. *)

Classes == {"User", "Tag"}

Annotations(cls) ==
    IF cls = "User" THEN << <<"id", "int">>, <<"name", "str">> >>
    ELSE << <<"name", "str">> >>

AnnotatedNames(cls) == [i \in 1..Len(Annotations(cls)) |-> Annotations(cls)[i][1]]

----------------------------------------------------------------------------
(* model.py: the schema *)

\* d[name] = field on a Python dict: a present key keeps its position
dict_setitem(d, name, field) ==
    IF \E i \in 1..Len(d) : d[i].name = name
    THEN [i \in 1..Len(d) |-> IF d[i].name = name THEN field ELSE d[i]]
    ELSE Append(d, field)

dict_get(d, name) ==
    LET hits == {i \in 1..Len(d) : d[i].name = name}
    IN  IF hits = {} THEN <<>> ELSE <<d[CHOOSE i \in hits : TRUE]>>

\* Model.__init_subclass__: cls._fields is found on Model, the one dict every
\* subclass shares, and the item assignment writes into it
RECURSIVE init_subclass_loop(_, _)
init_subclass_loop(d, annotations) ==
    IF annotations = <<>> THEN d
    ELSE init_subclass_loop(
             dict_setitem(d, annotations[1][1],
                          Field(annotations[1][1], annotations[1][2], None)),
             Tail(annotations))

__init_subclass__(d, cls) == init_subclass_loop(d, Annotations(cls))

__tablename__(cls) == cls

\* cls._fields: the attribute lookup ends at Model._fields for every class
_fields(cls) == Model_fields

to_sql_table(cls) ==
    __tablename__(cls) \o " ("
        \o join(", ", [i \in 1..Len(_fields(cls)) |-> Field_to_sql(_fields(cls)[i])])
        \o ")"

----------------------------------------------------------------------------
(* model.py: instances.  An instance is [cls, dict]; dict is its __dict__,  *)
(* a function from the attribute names that are set to their values.       *)

NoExc == [type |-> "", args |-> <<>>]
Exc(type, args) == [type |-> type, args |-> args]

getattr(dict, name, default) == IF name \in DOMAIN dict THEN dict[name] ELSE default

setattr(dict, name, value) ==
    [n \in DOMAIN dict \cup {name} |-> IF n = name THEN value ELSE dict[n]]

\* Model.set_values on an instance of cls: the loop stops at the first error
\* and keeps what it has set so far
RECURSIVE set_values(_, _, _)
set_values(cls, dict, new_values) ==
    IF new_values = <<>> THEN [exc |-> NoExc, dict |-> dict]
    ELSE LET name == new_values[1][1]
             value == new_values[1][2]
             found == dict_get(_fields(cls), name)
         IN  IF found # <<>>
             THEN IF isinstance(value, found[1].type)
                  THEN set_values(cls, setattr(dict, name, value), Tail(new_values))
                  ELSE [exc |-> Exc("BadValue", <<found[1].name, found[1].type>>),
                        dict |-> dict]
             ELSE [exc |-> Exc("FieldDoesNotExist", <<name>>), dict |-> dict]

EmptyDict == [n \in {} |-> None]

\* Model.__init__
Model_init(cls, values) == set_values(cls, EmptyDict, values)

_get_value(obj, field) == getattr(obj.dict, field.name, field.default)

fields(obj) == _fields(obj.cls)

values(obj) == [i \in 1..Len(fields(obj)) |-> _get_value(obj, fields(obj)[i])]

\* Model.__eq__; every model class here is a direct subclass of Model
__eq__(self, other) == other.cls = self.cls /\ values(self) = values(other)

_sql_format(value) ==
    IF isinstance(value, "str") THEN "'" \o value.str \o "'" ELSE str(value)

to_sql(obj) ==
    "(" \o join(", ", [i \in 1..Len(fields(obj)) |->
                          _sql_format(_get_value(obj, fields(obj)[i]))])

to_sql_fields(obj, joiner) ==
    join(joiner, [i \in 1..Len(fields(obj)) |->
                     fields(obj)[i].name \o " = "
                         \o _sql_format(_get_value(obj, fields(obj)[i]))])

\* Model.database / Model._get_database
_get_database(cls) ==
    IF _database[cls] # "None" THEN [exc |-> NoExc, db |-> _database[cls]]
    ELSE [exc |-> Exc("Exception", <<"this model has not been added to any databases">>),
          db |-> "None"]

----------------------------------------------------------------------------
(* database.py.  One Database object; the operators read its attributes   *)
(* from the current state and return what the call would do.               *)

Call(m, arg) == [m |-> m, arg |-> arg]

\* What the storage engine does with one statement: it fails, or it has
\* these result rows
Rows ==
    { <<PyInt(1), PyStr("a")>>, <<PyInt(2), PyStr("a")>>, <<PyStr("a"), PyInt(1)>> }

caching_on(model) == cache_config.on /\ model \in DOMAIN cache

bool_index(b) == IF b THEN 1 ELSE 0

\* objects[:n]
slice_to(objects, n) == SubSeq(objects, 1, IF n < Len(objects) THEN n ELSE Len(objects))

\* a membership test that knows identity only
list_contains_identity(h, bucket, id) == \E i \in 1..Len(bucket) : bucket[i] = id

\* object in bucket: identity first, then ==
list_contains(h, bucket, id) ==
    \E i \in 1..Len(bucket) : bucket[i] = id \/ __eq__(h[bucket[i]], h[id])

RECURSIVE add_to_cache_loop(_, _, _)
add_to_cache_loop(h, bucket, objects) ==
    IF objects = <<>> THEN bucket
    ELSE add_to_cache_loop(h,
             IF ~list_contains(h, bucket, objects[1])
             THEN Append(bucket, objects[1]) ELSE bucket,
             Tail(objects))

\* Database.add_to_cache: (count := (limit - len) > 0) binds the comparison,
\* so count is a bool and the slice is objects[:True]
add_to_cache(c, h, model, objects) ==
    IF model \notin DOMAIN c THEN [exc |-> Exc("KeyError", <<>>), cache |-> c]
    ELSE IF cache_config.limit = None
    THEN [exc |-> Exc("TypeError", <<>>), cache |-> c]
    ELSE LET count == (cache_config.limit.int - Len(c[model])) > 0
         IN  IF count
             THEN [exc |-> NoExc,
                   cache |-> [c EXCEPT ![model] =
                       add_to_cache_loop(h, c[model],
                                         slice_to(objects, bool_index(count)))]]
             ELSE [exc |-> NoExc, cache |-> c]

\* an execute that does not look at self.connection first
execute_on_unguarded(conn, query, commit, fetch, fetch_one, resp) ==
    IF resp.fail
    THEN [exc |-> Exc("OperationalError", <<>>),
          calls |-> <<[m |-> "execute", arg |-> query]>>, rows |-> <<>>]
    ELSE [exc |-> NoExc, calls |-> <<[m |-> "execute", arg |-> query]>>, rows |-> <<>>]

\* Database.execute with self.connection = conn; resp is the storage engine's
\* answer to the statement
execute_on(conn, query, commit, fetch, fetch_one, resp) ==
    IF conn = "None"
    THEN [exc |-> Exc("NotConnected", <<>>), calls |-> <<>>, rows |-> <<>>]
    ELSE IF resp.fail
    THEN [exc |-> Exc("OperationalError", <<>>),
          calls |-> <<Call("execute", query)>>, rows |-> <<>>]
    ELSE [exc |-> NoExc,
          calls |-> <<Call("execute", query)>>
                    \o (IF commit THEN <<Call("commit", "")>> ELSE <<>>)
                    \o (IF fetch THEN <<Call("fetchall", "")>>
                        ELSE IF fetch_one THEN <<Call("fetchone", "")>> ELSE <<>>),
          rows |-> IF fetch THEN resp.rows
                   ELSE IF fetch_one THEN slice_to(resp.rows, 1) ELSE <<>>]

execute(query, commit, fetch, fetch_one, resp) ==
    execute_on(connection, query, commit, fetch, fetch_one, resp)

Result(exc, cls, c, h, ret) == [exc |-> exc, calls |-> cls, cache |-> c, heap |-> h, ret |-> ret]

field_names(obj) == [i \in 1..Len(fields(obj)) |-> fields(obj)[i].name]

\* Database.save
Database_save(obj, resp) ==
    LET ex == execute("INSERT INTO " \o __tablename__(obj.cls) \o " ("
                          \o join(", ", field_names(obj)) \o ") VALUES "
                          \o to_sql(obj) \o ")",
                      TRUE, FALSE, FALSE, resp)
    IN  Result(ex.exc, ex.calls, cache, heap, <<>>)

\* Database.delete
Database_delete(obj, limit, resp) ==
    LET _limit == IF limit # None THEN " LIMIT " \o str(limit) ELSE ""
        ex == execute("DELETE FROM " \o __tablename__(obj.cls) \o " WHERE ("
                          \o to_sql_fields(obj, " AND ") \o ")" \o _limit,
                      TRUE, FALSE, FALSE, resp)
    IN  Result(ex.exc, ex.calls, cache, heap, <<>>)

\* Database.update
Database_update(obj, resp) ==
    LET ex == execute("UPDATE " \o __tablename__(obj.cls) \o " SET "
                          \o to_sql_fields(obj, ", "),
                      TRUE, FALSE, FALSE, resp)
    IN  Result(ex.exc, ex.calls, cache, heap, <<>>)

select_query(model, kwargs) ==
    "SELECT * FROM " \o __tablename__(model) \o " WHERE "
        \o join(" AND ", [i \in 1..Len(kwargs) |->
                             kwargs[i][1] \o " = " \o _sql_format(kwargs[i][2])])

\* {k: v for k, v in zip(names of model._fields, data)}
zip_fields(model, data) ==
    [i \in 1..(IF Len(_fields(model)) < Len(data) THEN Len(_fields(model)) ELSE Len(data))
        |-> <<_fields(model)[i].name, data[i]>>]

\* [model(**zip) for data in rows]: the first row that fails ends it
RECURSIVE build_objects(_, _, _)
build_objects(model, rows, built) ==
    IF rows = <<>> THEN [exc |-> NoExc, objects |-> built]
    ELSE LET made == Model_init(model, zip_fields(model, rows[1]))
         IN  IF made.exc # NoExc THEN [exc |-> made.exc, objects |-> built]
             ELSE build_objects(model, Tail(rows),
                                Append(built, [cls |-> model, dict |-> made.dict]))

\* a fetch that makes the bucket of a model that has none when caching is on
cache_fetched_making_bucket(model, objects, cls) ==
    LET h == heap \o objects
        ids == [i \in 1..Len(objects) |-> Len(heap) + i]
    IN  IF cache_config.on
        THEN Result(NoExc, cls,
                    [c \in DOMAIN cache \cup {model} |->
                        IF c \in DOMAIN cache THEN cache[c] ELSE ids],
                    h, ids)
        ELSE Result(NoExc, cls, cache, h, ids)

\* what follows the construction in fetch and fetch_all
cache_fetched(model, objects, cls) ==
    LET h == heap \o objects
        ids == [i \in 1..Len(objects) |-> Len(heap) + i]
    IN  IF caching_on(model)
        THEN LET added == add_to_cache(cache, h, model, ids)
             IN  IF added.exc # NoExc THEN Result(added.exc, cls, cache, heap, <<>>)
                 ELSE Result(NoExc, cls, added.cache, h, ids)
        ELSE Result(NoExc, cls, cache, h, ids)

\* a fetch_all that caches the instances built before the row that fails
Database_fetch_all_eager(model, kwargs, resp) ==
    LET ex == execute(select_query(model, kwargs), FALSE, TRUE, FALSE, resp)
        built == build_objects(model, ex.rows, <<>>)
        kept == cache_fetched(model, built.objects, ex.calls)
    IN  IF ex.exc # NoExc THEN Result(ex.exc, ex.calls, cache, heap, <<>>)
        ELSE IF built.exc # NoExc THEN Result(built.exc, ex.calls, kept.cache, kept.heap, <<>>)
        ELSE kept

\* Database.fetch_all
Database_fetch_all(model, kwargs, resp) ==
    LET ex == execute(select_query(model, kwargs), FALSE, TRUE, FALSE, resp)
        built == build_objects(model, ex.rows, <<>>)
    IN  IF ex.exc # NoExc THEN Result(ex.exc, ex.calls, cache, heap, <<>>)
        ELSE IF built.exc # NoExc THEN Result(built.exc, ex.calls, cache, heap, <<>>)
        ELSE cache_fetched(model, built.objects, ex.calls)

\* Database.fetch: with no row fetchone gives None and zip raises TypeError
Database_fetch(model, kwargs, resp) ==
    LET ex == execute(select_query(model, kwargs), FALSE, FALSE, TRUE, resp)
        built == build_objects(model, ex.rows, <<>>)
    IN  IF ex.exc # NoExc THEN Result(ex.exc, ex.calls, cache, heap, <<>>)
        ELSE IF ex.rows = <<>>
        THEN Result(Exc("TypeError", <<>>), ex.calls, cache, heap, <<>>)
        ELSE IF built.exc # NoExc THEN Result(built.exc, ex.calls, cache, heap, <<>>)
        ELSE cache_fetched(model, built.objects, ex.calls)

\* all(getattr(object, key, value) == value for key, value in values.items())
matches(obj, kwargs) ==
    \A i \in 1..Len(kwargs) : getattr(obj.dict, kwargs[i][1], kwargs[i][2]) = kwargs[i][2]

\* Database.get: the first match in the bucket, <<>> for None
Database_get(model, kwargs) ==
    IF caching_on(model)
    THEN LET hits == {i \in 1..Len(cache[model]) : matches(heap[cache[model][i]], kwargs)}
         IN  IF hits = {} THEN <<>>
             ELSE <<cache[model][CHOOSE i \in hits : \A j \in hits : i <= j]>>
    ELSE <<>>

\* a get_or_fetch that does not look in the cache
Database_get_or_fetch_uncached(model, kwargs, resp) == Database_fetch(model, kwargs, resp)

\* Database.get_or_fetch
Database_get_or_fetch(model, kwargs, resp) ==
    LET object == Database_get(model, kwargs)
    IN  IF object # <<>> THEN Result(NoExc, <<>>, cache, heap, object)
        ELSE Database_fetch(model, kwargs, resp)

\* Database.create_tables; failAt is the statement the engine fails (0: none)
RECURSIVE create_tables_loop(_, _, _, _)
create_tables_loop(conn, i, failAt, cls) ==
    IF i > Len(models) THEN [exc |-> NoExc, calls |-> cls]
    ELSE LET ex == execute_on(conn,
                              "CREATE TABLE IF NOT EXISTS " \o to_sql_table(models[i]),
                              TRUE, FALSE, FALSE, [fail |-> i = failAt, rows |-> <<>>])
         IN  IF ex.exc # NoExc THEN [exc |-> ex.exc, calls |-> cls \o ex.calls]
             ELSE create_tables_loop(conn, i + 1, failAt, cls \o ex.calls)

create_tables(conn, failAt) == create_tables_loop(conn, 1, failAt, <<>>)

----------------------------------------------------------------------------
(* The state machine *)

Op(op, exc, ret) == [op |-> op, exc |-> exc, ret |-> ret]

Declared == {declared[i] : i \in 1..Len(declared)}

Objects == 1..Len(heap)

RECURSIVE declare_all(_, _)
declare_all(d, order) ==
    IF order = <<>> THEN d ELSE declare_all(__init_subclass__(d, order[1]), Tail(order))

\* The state after the class statements in order and
\* Database(*ms, connection=conn)
Database_init(order, ms, conn) ==
    /\ declared = order
    /\ Model_fields = declare_all(<<>>, order)
    /\ _database = [c \in Classes |-> "None"]
    /\ models = ms
    /\ connection = conn
    /\ cache = [c \in {} |-> <<>>]
    /\ cache_config = [on |-> FALSE, limit |-> None]
    /\ heap = <<>>
    /\ calls = <<>>
    /\ last = Op("Database", NoExc, <<>>)

\* class cls(Model): ...
DeclareModel(cls) ==
    /\ cls \notin Declared
    /\ declared' = Append(declared, cls)
    /\ Model_fields' = __init_subclass__(Model_fields, cls)
    /\ calls' = <<>>
    /\ last' = Op("class", NoExc, <<>>)
    /\ UNCHANGED <<_database, models, connection, cache, cache_config, heap>>

\* Database.set_caching
set_caching(on, limit) ==
    /\ cache_config' = [on |-> on, limit |-> limit]
    /\ calls' = <<>>
    /\ last' = Op("set_caching", NoExc, <<>>)
    /\ UNCHANGED <<declared, Model_fields, _database, models, connection, cache, heap>>

\* the caller's db.cache[model] = []
cache_setitem(model) ==
    /\ model \in Declared
    /\ model \notin DOMAIN cache
    /\ cache' = [c \in DOMAIN cache \cup {model} |-> IF c = model THEN <<>> ELSE cache[c]]
    /\ calls' = <<>>
    /\ last' = Op("cache_setitem", NoExc, <<>>)
    /\ UNCHANGED <<declared, Model_fields, _database, models, connection, cache_config,
                   heap>>

\* Database.add_model
add_model(model) ==
    /\ model \in Declared
    /\ models' = Append(models, model)
    /\ calls' = <<>>
    /\ last' = Op("add_model", NoExc, <<>>)
    /\ UNCHANGED <<declared, Model_fields, _database, connection, cache, cache_config,
                   heap>>

\* Database.model, the decorator: on a class that does not derive from Model
\* it creates the subclass first
Database_model(cls) ==
    /\ IF cls \in Declared
       THEN UNCHANGED <<declared, Model_fields>>
       ELSE /\ declared' = Append(declared, cls)
            /\ Model_fields' = __init_subclass__(Model_fields, cls)
    /\ _database' = [_database EXCEPT ![cls] = "db"]
    /\ models' = Append(models, cls)
    /\ calls' = <<>>
    /\ last' = Op("model", NoExc, <<>>)
    /\ UNCHANGED <<connection, cache, cache_config, heap>>

\* Database.connect; opened is whether aiosqlite.connect(url) succeeds
connect(opened, tables, failAt) ==
    /\ connection' = IF opened THEN "conn" ELSE connection
    /\ LET r == IF opened /\ tables THEN create_tables("conn", failAt)
                ELSE [exc |-> IF opened THEN NoExc ELSE Exc("OperationalError", <<>>),
                      calls |-> <<>>]
       IN  /\ calls' = r.calls
           /\ last' = Op("connect", r.exc, <<>>)
    /\ UNCHANGED <<declared, Model_fields, _database, models, cache, cache_config, heap>>

\* an operation of the Database that leaves its configuration alone
Finish(op, r) ==
    /\ cache' = r.cache
    /\ heap' = r.heap
    /\ calls' = r.calls
    /\ last' = Op(op, r.exc, r.ret)
    /\ UNCHANGED <<declared, Model_fields, _database, models, connection, cache_config>>

Call_create_tables(failAt) ==
    LET r == create_tables(connection, failAt)
    IN  Finish("Database.create_tables", Result(r.exc, r.calls, cache, heap, <<>>))

Call_execute(commit, fetch, fetch_one, resp) ==
    LET ex == execute("SELECT 1", commit, fetch, fetch_one, resp)
    IN  Finish("Database.execute", Result(ex.exc, ex.calls, cache, heap, <<>>))

Call_add_to_cache(model, objects) ==
    LET r == add_to_cache(cache, heap, model, objects)
    IN  Finish("Database.add_to_cache", Result(r.exc, <<>>, r.cache, heap, <<>>))

\* Database.save, .update, .delete, .fetch, .fetch_all, .get, .get_or_fetch
\* called on the Database
Call_save(id, resp) == Finish("Database.save", Database_save(heap[id], resp))

Call_update(id, resp) == Finish("Database.update", Database_update(heap[id], resp))

Call_delete(id, limit, resp) ==
    Finish("Database.delete", Database_delete(heap[id], limit, resp))

Call_fetch(model, kwargs, resp) ==
    Finish("Database.fetch", Database_fetch(model, kwargs, resp))

Call_fetch_all(model, kwargs, resp) ==
    Finish("Database.fetch_all", Database_fetch_all(model, kwargs, resp))

Call_get(model, kwargs) ==
    Finish("Database.get", Result(NoExc, <<>>, cache, heap, Database_get(model, kwargs)))

Call_get_or_fetch(model, kwargs, resp) ==
    Finish("Database.get_or_fetch", Database_get_or_fetch(model, kwargs, resp))

\* database = cls._get_database() (self.database on an instance), then the call
via_database(cls, r) ==
    IF _get_database(cls).exc # NoExc
    THEN Result(_get_database(cls).exc, <<>>, cache, heap, <<>>)
    ELSE r

\* Model(**values): the caller keeps the instance when __init__ returns
Model_new(cls, kwargs) ==
    LET made == Model_init(cls, kwargs)
    IN  Finish("Model",
               IF made.exc # NoExc THEN Result(made.exc, <<>>, cache, heap, <<>>)
               ELSE Result(NoExc, <<>>, cache,
                           Append(heap, [cls |-> cls, dict |-> made.dict]),
                           <<Len(heap) + 1>>))

\* Model.set_values on an instance the caller holds
Model_set_values(id, kwargs) ==
    LET r == set_values(heap[id].cls, heap[id].dict, kwargs)
    IN  Finish("set_values",
               Result(r.exc, <<>>, cache, [heap EXCEPT ![id].dict = r.dict], <<>>))

\* an update that persists whatever set_values made of the changes
Model_update_unvalidated(id, save, kwargs, resp) ==
    LET r == set_values(heap[id].cls, heap[id].dict, kwargs)
        h == [heap EXCEPT ![id].dict = r.dict]
        d == _get_database(heap[id].cls)
        u == Database_update(h[id], resp)
    IN  Finish("update",
               IF ~save THEN Result(r.exc, <<>>, cache, h, <<>>)
               ELSE IF d.exc # NoExc THEN Result(d.exc, <<>>, cache, h, <<>>)
               ELSE IF r.exc # NoExc THEN Result(r.exc, u.calls, cache, h, <<>>)
               ELSE Result(u.exc, u.calls, cache, h, <<>>))

\* Model.update
Model_update(id, save, kwargs, resp) ==
    LET r == set_values(heap[id].cls, heap[id].dict, kwargs)
        h == [heap EXCEPT ![id].dict = r.dict]
        d == _get_database(heap[id].cls)
        u == Database_update(h[id], resp)
    IN  Finish("update",
               IF r.exc # NoExc THEN Result(r.exc, <<>>, cache, h, <<>>)
               ELSE IF ~save THEN Result(NoExc, <<>>, cache, h, <<>>)
               ELSE IF d.exc # NoExc THEN Result(d.exc, <<>>, cache, h, <<>>)
               ELSE Result(u.exc, u.calls, cache, h, <<>>))

\* Model.save
Model_save(id, resp) ==
    Finish("save", via_database(heap[id].cls, Database_save(heap[id], resp)))

\* Model.delete
Model_delete(id, limit, resp) ==
    Finish("delete", via_database(heap[id].cls, Database_delete(heap[id], limit, resp)))

\* Model.fetch, .fetch_all, .get, .get_or_fetch (classmethods)
Model_fetch(cls, kwargs, resp) ==
    Finish("fetch", via_database(cls, Database_fetch(cls, kwargs, resp)))

Model_fetch_all(cls, kwargs, resp) ==
    Finish("fetch_all", via_database(cls, Database_fetch_all(cls, kwargs, resp)))

Model_get(cls, kwargs) ==
    Finish("get",
           via_database(cls, Result(NoExc, <<>>, cache, heap, Database_get(cls, kwargs))))

Model_get_or_fetch(cls, kwargs, resp) ==
    Finish("get_or_fetch", via_database(cls, Database_get_or_fetch(cls, kwargs, resp)))

----------------------------------------------------------------------------
(* The inputs the caller and the storage engine draw from *)

Kw(name, value) == << <<name, value>> >>

Filters == {Kw("id", PyInt(1)), Kw("name", PyStr("a"))}

\* keyword arguments: good ones, a value of the wrong type, an unknown name,
\* and a good value followed by a bad one
Kwargs ==
    { <<>>, Kw("id", PyInt(1)), Kw("name", PyStr("a")),
      Kw("id", PyInt(1)) \o Kw("name", PyStr("a")),
      Kw("id", PyStr("a")), Kw("nope", PyInt(1)),
      Kw("name", PyStr("a")) \o Kw("id", PyStr("a")) }

Answer(fail, rows) == [fail |-> fail, rows |-> rows]

Failed == Answer(TRUE, <<>>)

Done(fail) == Answer(fail, <<>>)

\* to a SELECT: the statement fails, or no row, one row or two rows come back
OneRow == {Failed, Answer(FALSE, <<>>)} \cup {Answer(FALSE, <<r>>) : r \in Rows}

Responses ==
    OneRow \cup {Answer(FALSE, <<<<PyInt(1), PyStr("a")>>, r>>) : r \in Rows}

Limits == {PyInt(n) : n \in 1..MaxLimit}

DeclarationOrders ==
    {<<>>} \cup {<<c>> : c \in Classes}
        \cup {o \in {<<c, d>> : c \in Classes, d \in Classes} : o[1] # o[2]}

----------------------------------------------------------------------------
(* Spec: one model class, its cache bucket and the instances in it *)

Init == \E conn \in {"None", "conn"} : Database_init(<<"User">>, <<>>, conn)

Mutations == {Kw("id", PyInt(1)), Kw("id", PyInt(2))}

Next ==
    \/ \E opened \in BOOLEAN : connect(opened, FALSE, 0)
    \/ \E on \in BOOLEAN, limit \in Limits : set_caching(on, limit)
    \/ cache_setitem("User")
    \/ \E id \in Objects, kwargs \in Mutations : Model_set_values(id, kwargs)
    \/ \E kwargs \in Filters, resp \in OneRow :
           /\ \/ Call_fetch("User", kwargs, resp)
              \/ Call_get_or_fetch("User", kwargs, resp)
           /\ Len(heap') <= MaxObjects
    \/ \E kwargs \in Filters, resp \in Responses :
           /\ Call_fetch_all("User", kwargs, resp)
           /\ Len(heap') <= MaxObjects
    \/ \E kwargs \in Filters : Call_get("User", kwargs)

Spec == Init /\ [][Next]_vars

----------------------------------------------------------------------------
(* SpecDatabase: every operation of the Database, on two model classes, *)
(* with at most MaxInstances instances alive                             *)

InitDatabase ==
    \E ms \in {<<>>, <<"Tag">>}, conn \in {"None", "conn"} :
        Database_init(<<"User", "Tag">>, ms, conn)

Flags == [commit : BOOLEAN, fetch : BOOLEAN, fetch_one : BOOLEAN]

Good == Answer(FALSE, << <<PyInt(1), PyStr("a")>> >>)

NextDatabase ==
    \/ \E model \in Declared : Len(models) < MaxModels /\ add_model(model)
    \/ Len(models) < MaxModels /\ Database_model("User")
    \/ \E on \in BOOLEAN, limit \in Limits : set_caching(on, limit)
    \/ cache_setitem("User")
    \/ \E opened, tables \in BOOLEAN, failAt \in 0..Len(models) :
           connect(opened, tables, failAt)
    \/ \E failAt \in 0..Len(models) : Call_create_tables(failAt)
    \/ \E f \in Flags, fail \in BOOLEAN :
           Call_execute(f.commit, f.fetch, f.fetch_one, Done(fail))
    \/ /\ Len(heap) < MaxInstances
       /\ Model_new("User", Kw("id", PyInt(1)) \o Kw("name", PyStr("a")))
    \/ \E id \in Objects, fail \in BOOLEAN : Call_save(id, Done(fail))
    \/ \E id \in Objects, fail \in BOOLEAN : Call_update(id, Done(fail))
    \/ \E id \in Objects, fail \in BOOLEAN, limit \in {None, PyInt(1)} :
           Call_delete(id, limit, Done(fail))
    \/ \E model \in Declared, resp \in {Failed, Done(FALSE), Good} :
           /\ \/ Call_fetch(model, Kw("id", PyInt(1)), resp)
              \/ Call_fetch_all(model, Kw("id", PyInt(1)), resp)
              \/ Call_get_or_fetch(model, Kw("id", PyInt(1)), resp)
           /\ Len(heap') <= MaxInstances
    \/ \E model \in Declared : Call_get(model, Kw("id", PyInt(1)))

SpecDatabase == InitDatabase /\ [][NextDatabase]_vars

----------------------------------------------------------------------------
(* SpecSchema: the class statements in any order, the three ways to        *)
(* register a model, and the operations of Model, with at most             *)
(* MaxInstances instances alive                                            *)

InitSchema ==
    \E order \in DeclarationOrders, conn \in {"None", "conn"} :
        \E ms \in {<<>>} \cup {<<order[i]>> : i \in 1..Len(order)} :
            Database_init(order, ms, conn)

NextSchema ==
    \/ \E cls \in Classes : DeclareModel(cls)
    \/ \E model \in Declared : Len(models) < MaxModels /\ add_model(model)
    \/ \E cls \in Classes : Len(models) < MaxModels /\ Database_model(cls)
    \/ \E cls \in Declared, kwargs \in Kwargs :
           /\ Len(heap) < MaxInstances
           /\ Model_new(cls, kwargs)
    \/ \E id \in Objects, kwargs \in Kwargs : Model_set_values(id, kwargs)
    \/ \E id \in Objects, save \in BOOLEAN, kwargs \in Kwargs, fail \in BOOLEAN :
           Model_update(id, save, kwargs, Done(fail))
    \/ \E id \in Objects, fail \in BOOLEAN : Model_save(id, Done(fail))
    \/ \E id \in Objects, fail \in BOOLEAN, limit \in {None, PyInt(1)} :
           Model_delete(id, limit, Done(fail))
    \/ \E cls \in Declared, resp \in {Failed, Done(FALSE), Good} :
           /\ \/ Model_fetch(cls, Kw("name", PyStr("a")), resp)
              \/ Model_fetch_all(cls, Kw("name", PyStr("a")), resp)
              \/ Model_get_or_fetch(cls, Kw("name", PyStr("a")), resp)
           /\ Len(heap') <= MaxInstances
    \/ \E cls \in Declared : Model_get(cls, Kw("name", PyStr("a")))

SpecSchema == InitSchema /\ [][NextSchema]_vars

----------------------------------------------------------------------------
(* SpecAdmit: add_to_cache called with instances the caller constructed *)

InitAdmit == Database_init(<<"User">>, <<>>, "None")

AdmitKwargs ==
    { Kw("id", PyInt(1)) \o Kw("name", PyStr("a")),
      Kw("id", PyInt(2)) \o Kw("name", PyStr("a")),
      Kw("id", PyInt(1)), Kw("id", PyInt(2)) }

\* the lists of pairwise distinct references to instances of model
Presentations(model) ==
    LET ids == {i \in Objects : heap[i].cls = model}
    IN  {s \in UNION {[1..n -> ids] : n \in 0..Len(heap)} :
            \A i, j \in 1..Len(s) : i # j => s[i] # s[j]}

NextAdmit ==
    \/ \E on \in BOOLEAN, limit \in Limits : set_caching(on, limit)
    \/ cache_setitem("User")
    \/ \E kwargs \in AdmitKwargs : Len(heap) <= MaxLimit /\ Model_new("User", kwargs)
    \/ \E objects \in Presentations("User") : Call_add_to_cache("User", objects)

SpecAdmit == InitAdmit /\ [][NextAdmit]_vars

----------------------------------------------------------------------------
(* SpecUpdate: Model.update on instances of a model that the decorator may *)
(* or may not have registered, on a Database that may or may not be        *)
(* connected                                                                *)

InitUpdate == \E conn \in {"None", "conn"} : Database_init(<<"User">>, <<>>, conn)

\* the changes update is called with: a good one, a value of the wrong type,
\* an unknown name, and a good value followed by a bad one
UpdateKwargs ==
    { Kw("id", PyInt(2)), Kw("id", PyStr("a")), Kw("nope", PyInt(1)),
      Kw("name", PyStr("a")) \o Kw("id", PyStr("a")) }

NextUpdate ==
    \/ Len(models) < MaxModels /\ add_model("User")
    \/ Len(models) < MaxModels /\ Database_model("User")
    \/ \E opened \in BOOLEAN : connect(opened, FALSE, 0)
    \/ \E kwargs \in {Kw("id", PyInt(1)), Kw("id", PyInt(1)) \o Kw("name", PyStr("b"))} :
           /\ Len(heap) < MaxInstances
           /\ Model_new("User", kwargs)
    \/ \E id \in Objects, save \in BOOLEAN, kwargs \in UpdateKwargs, fail \in BOOLEAN :
           Model_update(id, save, kwargs, Done(fail))

SpecUpdate == InitUpdate /\ [][NextUpdate]_vars

----------------------------------------------------------------------------
(* The claims *)

PairwiseUnequal(h, objects) ==
    \A i, j \in 1..Len(objects) : i # j => ~__eq__(h[objects[i]], h[objects[j]])

\* C1: with limit N >= 1 and an empty bucket, one add_to_cache with N+1
\* pairwise unequal instances leaves exactly the first N of them in the bucket
C1_AdmitsFirstN ==
    [][\A objects \in Presentations("User") :
           ( /\ "User" \in DOMAIN cache
             /\ cache_config.limit # None
             /\ cache["User"] = <<>>
             /\ Len(objects) = cache_config.limit.int + 1
             /\ PairwiseUnequal(heap, objects)
             /\ Call_add_to_cache("User", objects) )
           => cache'["User"] = SubSeq(objects, 1, cache_config.limit.int)]_vars

\* C2: get_or_fetch returns the cached instance and makes no call on the
\* connection when get finds a match; otherwise it does what fetch does: one
\* SELECT, not committed, and fetchone
C2_GetOrFetch ==
    [][last'.op = "Database.get_or_fetch" =>
       \A kwargs \in Filters, resp \in OneRow :
           Call_get_or_fetch("User", kwargs, resp) =>
               IF Database_get("User", kwargs) # <<>>
               THEN /\ calls' = <<>>
                    /\ last'.exc = NoExc
                    /\ last'.ret = Database_get("User", kwargs)
                    /\ UNCHANGED <<cache, heap>>
               ELSE /\ calls' = IF connection = "None" THEN <<>>
                                ELSE IF resp.fail
                                THEN <<Call("execute", select_query("User", kwargs))>>
                                ELSE <<Call("execute", select_query("User", kwargs)),
                                       Call("fetchone", "")>>
                    /\ cache' = Database_fetch("User", kwargs, resp).cache
                    /\ heap' = Database_fetch("User", kwargs, resp).heap
                    /\ last'.exc = Database_fetch("User", kwargs, resp).exc
                    /\ last'.ret = Database_fetch("User", kwargs, resp).ret]_vars

\* a hit on a connected Database: an instance came back and nothing was called
C2_Witness ==
    /\ last.op = "Database.get_or_fetch"
    /\ last.exc = NoExc
    /\ last.ret # <<>>
    /\ connection = "conn"
    /\ calls = <<>>

FieldList(cls) == [i \in 1..Len(_fields(cls)) |-> <<_fields(cls)[i].name, _fields(cls)[i].type>>]

\* C3: every declared class's field mapping holds exactly the fields
\* annotated on that class, in declaration order, whatever else is declared
C3_FieldsAreOwnAnnotations ==
    \A cls \in Declared : FieldList(cls) = Annotations(cls)

Registered(cls) == \E i \in 1..Len(models) : models[i] = cls

NotAdded == Exc("Exception", <<"this model has not been added to any databases">>)

\* C4: the operations of a model fail with the "not added to any databases"
\* error if and only if the class is not registered with the Database
C4_NotAddedIffUnregistered ==
    [][ /\ \A cls \in Declared :
              /\ Model_get(cls, Kw("name", PyStr("a")))
                     => (last'.exc = NotAdded <=> ~Registered(cls))
              /\ \A resp \in {Failed, Done(FALSE), Good} :
                     \/ Model_fetch(cls, Kw("name", PyStr("a")), resp)
                     \/ Model_fetch_all(cls, Kw("name", PyStr("a")), resp)
                     \/ Model_get_or_fetch(cls, Kw("name", PyStr("a")), resp)
                     => (last'.exc = NotAdded <=> ~Registered(cls))
        /\ \A id \in Objects, fail \in BOOLEAN :
              \/ Model_save(id, Done(fail))
              \/ Model_update(id, TRUE, <<>>, Done(fail))
              \/ \E limit \in {None, PyInt(1)} : Model_delete(id, limit, Done(fail))
              => (last'.exc = NotAdded <=> ~Registered(heap[id].cls)) ]_vars

\* what the annotations of cls alone make of the keyword arguments
RECURSIVE OwnFields(_, _, _)
OwnFields(cls, dict, kwargs) ==
    IF kwargs = <<>> THEN [exc |-> NoExc, dict |-> dict]
    ELSE LET hits == {i \in 1..Len(Annotations(cls)) :
                         Annotations(cls)[i][1] = kwargs[1][1]}
         IN  IF hits = {}
             THEN [exc |-> Exc("FieldDoesNotExist", <<kwargs[1][1]>>), dict |-> dict]
             ELSE LET type == Annotations(cls)[CHOOSE i \in hits : TRUE][2]
                  IN  IF kwargs[1][2].type = type
                      THEN OwnFields(cls, setattr(dict, kwargs[1][1], kwargs[1][2]),
                                     Tail(kwargs))
                      ELSE [exc |-> Exc("BadValue", <<kwargs[1][1], type>>),
                            dict |-> dict]

\* C5: constructing an instance or set_values raises BadValue (naming the
\* field and its type) for a value of the wrong type and FieldDoesNotExist
\* for a name that is not a field declared on that class, and stores a value
\* only under a declared name with a matching type
C5_ValidatesAgainstOwnFields ==
    [][ /\ \A cls \in Declared, kwargs \in Kwargs :
              Model_new(cls, kwargs) =>
                  /\ last'.exc = OwnFields(cls, EmptyDict, kwargs).exc
                  /\ last'.exc = NoExc =>
                         heap'[Len(heap')].dict = OwnFields(cls, EmptyDict, kwargs).dict
        /\ \A id \in Objects, kwargs \in Kwargs :
              Model_set_values(id, kwargs) =>
                  /\ last'.exc = OwnFields(heap[id].cls, heap[id].dict, kwargs).exc
                  /\ heap'[id].dict = OwnFields(heap[id].cls, heap[id].dict, kwargs).dict
      ]_vars

NotConnected == Exc("NotConnected", <<>>)

NeedsConnection ==
    {"Database.execute", "Database.save", "Database.update", "Database.delete",
     "Database.fetch", "Database.fetch_all"}

\* C6: while the connection is unset, execute, save, update, delete, fetch,
\* fetch_all, and create_tables with a registered model, raise NotConnected,
\* call nothing on the storage engine and leave the cache as it was
C6_NotConnected ==
    [][ ( /\ connection = "None"
          /\ \/ last'.op \in NeedsConnection
             \/ last'.op = "Database.create_tables" /\ models # <<>> )
        => /\ last'.exc = NotConnected
           /\ calls' = <<>>
           /\ UNCHANGED <<cache, connection>> ]_vars

\* a fetch on a Database that was never connected, with caching on and a bucket
C6_Witness ==
    /\ last.op = "Database.fetch"
    /\ last.exc = NotConnected
    /\ connection = "None"
    /\ cache_config.on
    /\ DOMAIN cache # {}

\* C7: a fetch or fetch_all that fails leaves every cache bucket and the rest
\* of the Database as they were, so what a later fetch does is what it would
\* have done without the failed call
C7_FailedFetchChangesNothing ==
    [][ ( /\ last'.op \in {"Database.fetch", "Database.fetch_all"}
          /\ last'.exc # NoExc )
        => UNCHANGED <<cache, cache_config, connection, models, heap>> ]_vars

\* a fetch_all whose second row fails validation, with caching on and room
\* left in the bucket
C7_Witness ==
    /\ last.op = "Database.fetch_all"
    /\ last.exc.type = "BadValue"
    /\ caching_on("User")
    /\ Len(cache["User"]) < cache_config.limit.int
    /\ Len(calls) = 2

NoDuplicates(c, h) ==
    \A model \in DOMAIN c : \A i, j \in 1..Len(c[model]) :
        i # j => ~__eq__(h[c[model][i]], h[c[model][j]])

\* C8 as stated: no cache bucket ever contains two equal instances
C8_NeverTwoEqual == NoDuplicates(cache, heap)

Fetches == {"Database.fetch", "Database.fetch_all", "Database.get_or_fetch"}

\* C8, amended: set_caching leaves the buckets alone; a fetch, fetch_all or
\* get_or_fetch leaves a bucket alone or appends instances none of which
\* equals an instance then in the bucket, and appends nothing to a bucket
\* whose length has reached the configured limit
C8_AdmissionOnly ==
    [][ /\ last'.op = "set_caching" => cache' = cache
        /\ last'.op \in Fetches =>
               \A model \in DOMAIN cache :
                   /\ model \in DOMAIN cache'
                   /\ Len(cache'[model]) >= Len(cache[model])
                   /\ SubSeq(cache'[model], 1, Len(cache[model])) = cache[model]
                   /\ \A i \in 1..Len(cache'[model]), j \in 1..Len(cache'[model]) :
                          (i # j /\ j > Len(cache[model])) =>
                              ~__eq__(heap'[cache'[model][i]], heap'[cache'[model][j]])
                   /\ ( cache_config.limit # None
                        /\ Len(cache[model]) >= cache_config.limit.int )
                          => cache'[model] = cache[model] ]_vars

\* a fetch with caching on and room in the bucket whose instance was not
\* admitted, being equal to one in the bucket
C8_Witness ==
    /\ last.op = "Database.fetch"
    /\ last.exc = NoExc
    /\ caching_on("User")
    /\ Len(cache["User"]) < cache_config.limit.int
    /\ \A i \in 1..Len(cache["User"]) : cache["User"][i] # last.ret[1]
    /\ \E i \in 1..Len(cache["User"]) : __eq__(heap[cache["User"][i]], heap[last.ret[1]])

\* every keyword argument names a key of _fields and has that field's type
Validated(cls, kwargs) ==
    \A i \in 1..Len(kwargs) :
        /\ dict_get(_fields(cls), kwargs[i][1]) # <<>>
        /\ isinstance(kwargs[i][2], dict_get(_fields(cls), kwargs[i][1])[1].type)

\* C9: Model.update executes the UPDATE only after every changed value has
\* passed the validation of set_values; when one does not, the error is
\* raised and nothing is executed, and with save=False nothing is executed
C9_UpdateValidatesFirst ==
    [][last'.op = "update" =>
       \A id \in Objects, save \in BOOLEAN, kwargs \in UpdateKwargs, fail \in BOOLEAN :
           Model_update(id, save, kwargs, Done(fail)) =>
               /\ ~Validated(heap[id].cls, kwargs) =>
                      /\ last'.exc.type \in {"BadValue", "FieldDoesNotExist"}
                      /\ calls' = <<>>
               /\ ~save => calls' = <<>>
               /\ calls' # <<>> =>
                      /\ save /\ Validated(heap[id].cls, kwargs)
                      /\ calls'[1] = Call("execute",
                             "UPDATE " \o __tablename__(heap[id].cls) \o " SET "
                                 \o to_sql_fields(heap'[id], ", ")) ]_vars

\* an update with save=True of a registered model on a connected Database
\* that raised a validation error and executed nothing
C9_Witness ==
    /\ last.op = "update"
    /\ last.exc.type \in {"BadValue", "FieldDoesNotExist"}
    /\ calls = <<>>
    /\ connection = "conn"
    /\ \A id \in Objects : _database[heap[id].cls] = "db"

\* C10: no operation of the Database creates a cache bucket, so a class
\* whose bucket the caller did not create has caching off and nothing cached
C10_NoBucketCreated ==
    [][ last'.op # "cache_setitem" =>
            /\ DOMAIN cache' = DOMAIN cache
            /\ \A model \in Declared \ DOMAIN cache :
                   /\ ~caching_on(model)'
                   /\ Database_get(model, Kw("id", PyInt(1)))' = <<>> ]_vars

\* a successful fetch of Tag instances with caching on and a limit set, and
\* still no bucket for Tag
C10_Witness ==
    /\ last.op \in {"Database.fetch", "Database.fetch_all"}
    /\ last.exc = NoExc
    /\ last.ret # <<>>
    /\ heap[last.ret[1]].cls = "Tag"
    /\ cache_config.on
    /\ "Tag" \notin DOMAIN cache

====
